---- MODULE Spec2Model ----
(***************************************************************************)
(* Model of analysis/plotting_nb/plotting_helpers.py (candidDAC).          *)
(*                                                                         *)
(* The helpers are called one at a time from a notebook and share no       *)
(* state, so every helper has a specification of its own over the same     *)
(* variables: Init draws the arguments of one call, the actions run the    *)
(* helper's code.  Variables a specification does not use stay at          *)
(* Unused.                                                                 *)
(*                                                                         *)
(* Real numbers are fixed-point integers.  Every call carries the integer  *)
(* that stands for 1.0 (its "unit"), and exp(-x) is kept symbolic: an      *)
(* episode reward is [num, den, exps], the rational num/den plus the sum   *)
(* of exp(-x) over the bag exps of non-zero exponents x (exp(0) is 1, and  *)
(* exponentials of distinct non-zero rationals are linearly independent    *)
(* over the rationals, so two rewards are equal as real numbers exactly    *)
(* when their normal forms are equal).                                     *)
(***************************************************************************)
EXTENDS Integers, Sequences, FiniteSets, Bags, TLC

VARIABLES pc, args, ret, env, acc, k, episodic_reward, hist

vars == <<pc, args, ret, env, acc, k, episodic_reward, hist>>

\* value of a variable the running specification does not use
Unused == "unused"

\* Python's None
None == "None"

\* an entry of a numpy float vector: nan (np.full(n, np.nan)) or a number
NaN == [nan |-> TRUE, value |-> 0]

Num(v) == [nan |-> FALSE, value |-> v]

----
\* Arithmetic helpers

Abs(x) == IF x < 0 THEN -x ELSE x

RECURSIVE Pow(_, _)
Pow(b, e) == IF e = 0 THEN 1 ELSE b * Pow(b, e - 1)

RECURSIVE SumSeq(_)
SumSeq(s) == IF s = <<>> THEN 0 ELSE Head(s) + SumSeq(Tail(s))

Range(s) == {s[i] : i \in DOMAIN s}

StrictlyIncreasing(s) == \A i \in 1..(Len(s) - 1) : s[i] < s[i + 1]

\* the ascending sequence of the elements of a finite set of integers
RECURSIVE SortedSeqOf(_)
SortedSeqOf(S) ==
    IF S = {} THEN <<>>
    ELSE LET m == CHOOSE x \in S : \A y \in S : x <= y
         IN  <<m>> \o SortedSeqOf(S \ {m})

----
\* find_nearest (plotting_helpers.py:28-40)

\* largest grid value of a find_nearest call
MaxVal == 5

\* np.searchsorted(array, value), side='left': the 0-based insertion index,
\* i.e. the number of elements strictly below value
searchsorted(array, value) == Cardinality({i \in DOMAIN array : array[i] < value})

\* the comparison of line 40 turned around
find_nearest_flipped(array, value) ==
    LET idx == searchsorted(array, value)
    IN  IF idx = 0 THEN array[1]
        ELSE IF idx = Len(array) THEN array[Len(array)]
        ELSE LET dist_low == value - array[idx]
                 dist_high == array[idx + 1] - value
             IN  IF dist_low > dist_high THEN array[idx] ELSE array[idx + 1]

\* line 40 with <= in place of <
find_nearest_tie_low(array, value) ==
    LET idx == searchsorted(array, value)
    IN  IF idx = 0 THEN array[1]
        ELSE IF idx = Len(array) THEN array[Len(array)]
        ELSE LET dist_low == value - array[idx]
                 dist_high == array[idx + 1] - value
             IN  IF dist_low <= dist_high THEN array[idx] ELSE array[idx + 1]

\* Python's array[idx] is array[idx + 1] here (sequences start at 1)
find_nearest(array, value) ==
    LET idx == searchsorted(array, value)
    IN  IF idx = 0 THEN array[1]
        ELSE IF idx = Len(array) THEN array[Len(array)]
        ELSE LET dist_low == value - array[idx]
                 dist_high == array[idx + 1] - value
             IN  IF dist_low < dist_high THEN array[idx] ELSE array[idx + 1]

\* the non-empty strictly increasing sequences over 0..MaxVal
SortedArrays == {SortedSeqOf(S) : S \in (SUBSET (0..MaxVal)) \ {{}}}

InitFindNearest ==
    /\ pc = "call"
    /\ \E array \in SortedArrays, value \in (-1)..(MaxVal + 1) :
           args = [array |-> array, value |-> value]
    /\ ret = None
    /\ env = Unused /\ acc = Unused /\ k = Unused
    /\ episodic_reward = Unused /\ hist = Unused

CallFindNearest ==
    /\ pc = "call"
    /\ ret' = find_nearest(args.array, args.value)
    /\ pc' = "done"
    /\ UNCHANGED <<args, env, acc, k, episodic_reward, hist>>

NextFindNearest == CallFindNearest

SpecFindNearest == InitFindNearest /\ [][NextFindNearest]_vars

\* C1: find_nearest returns an element of the array, no element of the array
\* is strictly closer to the query, a query at or below the minimum gives the
\* first element and a query at or above the maximum gives the last one.
C1_NearestElement ==
    pc = "done" =>
        LET A == args.array
            v == args.value
        IN  /\ ret \in Range(A)
            /\ \A a \in Range(A) : Abs(a - v) >= Abs(ret - v)
            /\ (v <= A[1] => ret = A[1])
            /\ (v >= A[Len(A)] => ret = A[Len(A)])

\* a query strictly inside a grid of three or more values, not on the grid
C1_Witness ==
    /\ pc = "done"
    /\ Len(args.array) >= 3
    /\ args.array[1] < args.value /\ args.value < args.array[Len(args.array)]
    /\ args.value \notin Range(args.array)
    /\ ret \in Range(args.array)

\* the query lies strictly between array[i] and array[i+1], equally far from both
TieAt(i) ==
    /\ i \in 1..(Len(args.array) - 1)
    /\ args.array[i] < args.value /\ args.value < args.array[i + 1]
    /\ args.value - args.array[i] = args.array[i + 1] - args.value

\* C2 as stated: on an exact tie between two adjacent candidates the smaller
\* (lower-indexed) candidate is returned.
C2_TieLower ==
    pc = "done" => \A i \in DOMAIN args.array : TieAt(i) => ret = args.array[i]

\* C2 amended: on an exact tie between two adjacent candidates the larger
\* (higher-indexed) candidate is returned.
C2_TieHigher ==
    pc = "done" => \A i \in DOMAIN args.array : TieAt(i) => ret = args.array[i + 1]

C2_Witness ==
    /\ pc = "done"
    /\ \E i \in DOMAIN args.array : TieAt(i) /\ ret = args.array[i + 1]

----
\* compute_optimal_episode_reward (plotting_helpers.py:59-104)

\* longest episode of an environment
MaxSteps == 2

\* the integer standing for 1.0 in a compute_optimal_episode_reward call
RewardUnit == 2

\* the decay constants c a call is given, in the unit of the call
DecayConstants == {1, 2}

\* the reward_shape values a caller passes: the default of
\* compute_optimal_episode_reward, and the two spellings of the exponential shape
RewardShapes == {None, "exponential", "exp"}

SingleTarget == "DiffImportanceFineTuneSigmoidEnv"

Piecewise == "PiecewiseLinearEnv"

MultiAction == "SigmoidEnv"

\* env._sig(t, env.slopes[i], env.shifts[i]) of the current instance (dacbench):
\* the environment's truth table, t and i counted from 0 as in the code
sig(e, t, i) == e.truth[t + 1][i + 1]

\* env._get_target(t) of the current instance (dacbench)
get_target(e, t) == e.truth[t + 1][1]

\* the reward 0
ZeroReward(den) == [num |-> 0, den |-> den, exps |-> EmptyBag]

\* 1 - |truth - best|, in the unit of the call
LinearTerm(unit, truth, best) ==
    [num |-> unit - Abs(truth - best), den |-> unit, exps |-> EmptyBag]

\* exp(-c * |truth - best|): 1 when the exponent is 0, symbolic otherwise
ExpTerm(unit, c, truth, best) ==
    LET x == c * Abs(truth - best)
    IN  IF x = 0 THEN [num |-> unit, den |-> unit, exps |-> EmptyBag]
        ELSE [num |-> 0, den |-> unit, exps |-> SetToBag({x})]

\* += of two rewards over the same denominator
AddReward(a, b) == [num |-> a.num + b.num, den |-> a.den, exps |-> a.exps (+) b.exps]

\* lines 71-78, steps t..n_steps-1 of the single-target loop
RECURSIVE SingleTargetFrom(_, _, _, _, _)
SingleTargetFrom(e, possible_actions, reward_shape, c, t) ==
    IF t >= e.n_steps THEN ZeroReward(e.unit)
    ELSE LET truth == sig(e, t, 0)
             best_pred_acc == find_nearest(possible_actions, truth)
             step == IF reward_shape = "exponential"
                     THEN ExpTerm(e.unit, c, truth, best_pred_acc)
                     ELSE LinearTerm(e.unit, truth, best_pred_acc)
         IN  AddReward(step, SingleTargetFrom(e, possible_actions, reward_shape, c, t + 1))

\* lines 82-90, steps t..n_steps-1 of the piecewise-target loop
RECURSIVE PiecewiseFrom(_, _, _, _, _)
PiecewiseFrom(e, possible_actions, reward_shape, c, t) ==
    IF t >= e.n_steps THEN ZeroReward(e.unit)
    ELSE LET truth == get_target(e, t)
             best_pred_acc == find_nearest(possible_actions, truth)
             step == IF reward_shape = "exponential" \/ reward_shape = "exp"
                     THEN ExpTerm(e.unit, c, truth, best_pred_acc)
                     ELSE LinearTerm(e.unit, truth, best_pred_acc)
         IN  AddReward(step, PiecewiseFrom(e, possible_actions, reward_shape, c, t + 1))

\* lines 95-100: the product over actions i..n_actions-1 of
\* 1 - |truth - best|, as a numerator over unit^(n_actions - i)
RECURSIVE StepProductFrom(_, _, _, _)
StepProductFrom(e, possible_actions, t, i) ==
    IF i >= e.n_actions THEN 1
    ELSE LET truth == sig(e, t, i)
             best_pred_acc == find_nearest(possible_actions, truth)
         IN  (e.unit - Abs(truth - best_pred_acc))
                 * StepProductFrom(e, possible_actions, t, i + 1)

\* lines 93-102, steps t..n_steps-1 of the multi-action loop
RECURSIVE MultiActionFrom(_, _, _)
MultiActionFrom(e, possible_actions, t) ==
    IF t >= e.n_steps THEN ZeroReward(Pow(e.unit, e.n_actions))
    ELSE AddReward([num |-> StepProductFrom(e, possible_actions, t, 0),
                    den |-> Pow(e.unit, e.n_actions), exps |-> EmptyBag],
                   MultiActionFrom(e, possible_actions, t + 1))

compute_optimal_episode_reward(e, possible_actions, reward_shape, c) ==
    IF e.kind = SingleTarget
    THEN SingleTargetFrom(e, possible_actions, reward_shape, c, 0)
    ELSE IF e.kind = Piecewise
    THEN PiecewiseFrom(e, possible_actions, reward_shape, c, 0)
    ELSE MultiActionFrom(e, possible_actions, 0)

\* the truth tables of an episode: one row per step, one truth per action
TruthTables(n_steps, n_actions, unit) == [1..n_steps -> [1..n_actions -> 0..unit]]

\* the action grids over 0..unit
Grids(unit) == {SortedSeqOf(S) : S \in (SUBSET (0..unit)) \ {{}}}

InitReward ==
    /\ pc = "call"
    /\ \E kind \in {SingleTarget, Piecewise}, n_steps \in 1..MaxSteps :
       \E truth \in TruthTables(n_steps, 1, RewardUnit) :
           env = [kind |-> kind, n_steps |-> n_steps, n_actions |-> 1,
                  truth |-> truth, unit |-> RewardUnit]
    /\ \E possible_actions \in Grids(RewardUnit), reward_shape \in RewardShapes,
          c \in DecayConstants :
           args = [possible_actions |-> possible_actions,
                   reward_shape |-> reward_shape, c |-> c]
    /\ ret = None
    /\ acc = Unused /\ k = Unused /\ episodic_reward = Unused /\ hist = Unused

CallReward ==
    /\ pc = "call"
    /\ ret' = compute_optimal_episode_reward(env, args.possible_actions,
                                             args.reward_shape, args.c)
    /\ pc' = "done"
    /\ UNCHANGED <<args, env, acc, k, episodic_reward, hist>>

NextReward == CallReward

SpecReward == InitReward /\ [][NextReward]_vars

\* the per-step truths of the episode, as the single- and piecewise-target
\* variants read them
TruthAt(t) == env.truth[t][1]

\* the sum over the steps from t on of exp(-c*|truth - nearest|) when an
\* exponential shape ("exponential" or "exp") is requested, of
\* 1 - |truth - nearest| otherwise
RECURSIVE RewardLawFrom(_)
RewardLawFrom(t) ==
    IF t > env.n_steps THEN ZeroReward(env.unit)
    ELSE LET d == Abs(TruthAt(t) - find_nearest(args.possible_actions, TruthAt(t)))
             x == args.c * d
             step == IF args.reward_shape \in {"exponential", "exp"}
                     THEN IF x = 0
                          THEN [num |-> env.unit, den |-> env.unit, exps |-> EmptyBag]
                          ELSE [num |-> 0, den |-> env.unit, exps |-> SetToBag({x})]
                     ELSE [num |-> env.unit - d, den |-> env.unit, exps |-> EmptyBag]
         IN  AddReward(step, RewardLawFrom(t + 1))

\* the environment of the other of the two variants, on the same truths
OtherVariant ==
    [env EXCEPT !.kind = IF env.kind = SingleTarget THEN Piecewise ELSE SingleTarget]

\* C3: the single-target and the piecewise-target variant return the same
\* episode reward for every reward shape a caller can pass (None,
\* "exponential", "exp"), every c, grid and truth sequence: the sum of
\* exp(-c*|truth - nearest|) for an exponential shape, of 1 - |truth - nearest|
\* otherwise.
C3_SameRewardLaw ==
    pc = "done" =>
        /\ ret = compute_optimal_episode_reward(OtherVariant, args.possible_actions,
                                                args.reward_shape, args.c)
        /\ ret = RewardLawFrom(1)

\* C7: single-target variant, non-exponential shape: when the truth of every
\* step is a value of the action grid, the episode reward is exactly n_steps.
C7_PerfectScore ==
    (/\ pc = "done"
     /\ env.kind = SingleTarget
     /\ args.reward_shape # "exponential"
     /\ \A t \in 1..env.n_steps : TruthAt(t) \in Range(args.possible_actions))
    => ret = [num |-> env.n_steps * env.unit, den |-> env.unit, exps |-> EmptyBag]

\* a two-step episode on a grid of several values whose truths are the grid's
\* second value and a later one
C7_Witness ==
    /\ pc = "done"
    /\ env.kind = SingleTarget
    /\ args.reward_shape = None
    /\ env.n_steps = 2
    /\ Len(args.possible_actions) >= 2
    /\ TruthAt(1) = args.possible_actions[2]
    /\ TruthAt(2) \in Range(args.possible_actions)
    /\ ret.num = 2 * env.unit

----
\* translate_run_name (plotting_helpers.py:43-56)
\* A Python str is a sequence of one-character strings.

\* most tokens a run name is put together from
MaxTokens == 3

\* `sub in s` of Python: sub occurs in s as a contiguous substring
Contains(s, sub) ==
    \E i \in 0..(Len(s) - Len(sub)) : SubSeq(s, i + 1, i + Len(sub)) = sub

adqn == <<"a", "d", "q", "n">>

ddqn == <<"d", "d", "q", "n">>

fdqn_a == <<"f", "d", "q", "n", "_", "a">>

saql == <<"s", "a", "q", "l">>

fdqn == <<"f", "d", "q", "n">>

iql == <<"i", "q", "l">>

sdqn == <<"s", "d", "q", "n">>

DDQN == <<"D", "D", "Q", "N">>

SAQL == <<"S", "A", "Q", "L">>

IQL == <<"I", "Q", "L">>

simSDQN == <<"s", "i", "m", "S", "D", "Q", "N">>

\* the plain factorized marker tested before the factorized-autorecursive one
translate_run_name_plain_first(run_name) ==
    IF Contains(run_name, adqn) \/ Contains(run_name, ddqn) THEN DDQN
    ELSE IF Contains(run_name, fdqn) \/ Contains(run_name, iql) THEN IQL
    ELSE IF Contains(run_name, fdqn_a) \/ Contains(run_name, saql) THEN SAQL
    ELSE IF Contains(run_name, sdqn) THEN simSDQN
    ELSE run_name

\* no identity fallback: a name without a marker gets a label of its own
translate_run_name_no_fallback(run_name) ==
    IF Contains(run_name, adqn) \/ Contains(run_name, ddqn) THEN DDQN
    ELSE IF Contains(run_name, fdqn_a) \/ Contains(run_name, saql) THEN SAQL
    ELSE IF Contains(run_name, fdqn) \/ Contains(run_name, iql) THEN IQL
    ELSE IF Contains(run_name, sdqn) THEN simSDQN
    ELSE <<"u", "n", "k", "n", "o", "w", "n">>

translate_run_name(run_name) ==
    IF Contains(run_name, adqn) \/ Contains(run_name, ddqn) THEN DDQN
    ELSE IF Contains(run_name, fdqn_a) \/ Contains(run_name, saql) THEN SAQL
    ELSE IF Contains(run_name, fdqn) \/ Contains(run_name, iql) THEN IQL
    ELSE IF Contains(run_name, sdqn) THEN simSDQN
    ELSE run_name

exp_ == <<"e", "x", "p", "_">>

seed == <<"_", "s", "e", "e", "d">>

unrecognized_tag ==
    <<"u", "n", "r", "e", "c", "o", "g", "n", "i", "z", "e", "d", "_", "t", "a", "g">>

\* the pieces run names are put together from: the markers, the labels, and
\* text around them ("fdqn" followed by "_a" is the marker "fdqn_a")
Tokens ==
    {adqn, ddqn, fdqn_a, fdqn, saql, iql, sdqn, DDQN, SAQL, IQL, simSDQN,
     exp_, seed, <<"_", "a">>, unrecognized_tag}

RECURSIVE NamesOf(_)
NamesOf(n) ==
    IF n = 0 THEN {<<>>}
    ELSE LET shorter == NamesOf(n - 1)
         IN  shorter \cup {s \o t : s \in shorter, t \in Tokens}

RunNames == NamesOf(MaxTokens)

InitTranslate ==
    /\ pc = "call"
    /\ \E run_name \in RunNames : args = [run_name |-> run_name]
    /\ ret = None
    /\ env = Unused /\ acc = Unused /\ k = Unused
    /\ episodic_reward = Unused /\ hist = Unused

\* the notebook translates a name; translating the label it got is a second call
CallTranslate ==
    /\ pc = "call"
    /\ ret' = translate_run_name(args.run_name)
    /\ pc' = "done"
    /\ UNCHANGED <<args, env, acc, k, episodic_reward, hist>>

CallTranslateAgain ==
    /\ pc = "done"
    /\ args' = [run_name |-> ret]
    /\ ret' = translate_run_name(ret)
    /\ pc' = "again"
    /\ UNCHANGED <<env, acc, k, episodic_reward, hist>>

NextTranslate == CallTranslate \/ CallTranslateAgain

SpecTranslate == InitTranslate /\ [][NextTranslate]_vars

exp_fdqn_a_seed == exp_ \o fdqn_a \o seed

exp_fdqn_seed == exp_ \o fdqn \o seed

\* C8: a run name containing 'fdqn_a' or 'saql' is never translated to 'IQL';
\* a name containing 'fdqn' or 'iql' and none of 'fdqn_a', 'saql', 'adqn',
\* 'ddqn' is translated to 'IQL'; 'exp_fdqn_a_seed..' gives 'SAQL' and
\* 'exp_fdqn_seed..' gives 'IQL'.
C8_SpecificMarkerFirst ==
    pc = "done" =>
        LET x == args.run_name
        IN  /\ (Contains(x, fdqn_a) \/ Contains(x, saql)) => ret # IQL
            /\ (/\ Contains(x, fdqn) \/ Contains(x, iql)
                /\ ~Contains(x, fdqn_a) /\ ~Contains(x, saql)
                /\ ~Contains(x, adqn) /\ ~Contains(x, ddqn)) => ret = IQL
            /\ x = exp_fdqn_a_seed => ret = SAQL
            /\ x = exp_fdqn_seed => ret = IQL

C8_Witness ==
    /\ pc = "done"
    /\ args.run_name = exp_fdqn_a_seed
    /\ Contains(args.run_name, fdqn)
    /\ ret = SAQL

\* C9: translating a translation changes nothing; the four labels and every
\* name without a marker are returned unchanged.
C9_Idempotent ==
    /\ pc = "again" => ret = args.run_name
    /\ pc = "done" =>
        LET x == args.run_name
        IN  /\ x \in {DDQN, SAQL, IQL, simSDQN} => ret = x
            /\ (\A m \in {adqn, ddqn, fdqn_a, saql, fdqn, iql, sdqn} : ~Contains(x, m))
                   => ret = x

\* the second translation of a name that carried a marker
C9_Witness ==
    /\ pc = "again"
    /\ args.run_name = simSDQN
    /\ ret = simSDQN

----
\* get_actions_importance_sigmoid (plotting_helpers.py:219-236)
\* importance_base is the rational num/den.  The values of a call are integers
\* in the unit GridUnit of that call, in which every candidate is whole.

\* largest max_dim of a call
MaxDim == 3

\* largest denominator of an importance_base
MaxBaseDen == 3

\* largest n_acts of a call
MaxActs == 4

\* the integer standing for 1.0 in the grid of a call: every candidate
\* b^i * (j/(n_acts-1) - 0.5), i < max_dim, is a multiple of 1/GridUnit
GridUnit(max_dim, importance_base, n_acts) ==
    2 * (n_acts - 1) * Pow(importance_base.den, max_dim - 1)

\* lines 223-225: entry i+1 is the candidate list of dimension i,
\* [1/(n_acts-1) * j] for dimension 0 and
\* [importance_base**i * (j/(n_acts-1) - 0.5)] for dimension i >= 1
possible_actions_per_dim(max_dim, importance_base, n_acts) ==
    LET unit == GridUnit(max_dim, importance_base, n_acts)
    IN  [d \in 1..max_dim |->
            [jj \in 1..n_acts |->
                LET i == d - 1
                    j == jj - 1
                IN  IF i = 0 THEN (unit \div (n_acts - 1)) * j
                    ELSE Pow(importance_base.num, i)
                             * Pow(importance_base.den, max_dim - 1 - i)
                             * (2 * j - (n_acts - 1))]]

\* lines 229-230: the sums of one candidate per dimension d..max_dim, in the
\* order itertools.product enumerates the index tuples (last index fastest)
RECURSIVE ProductSums(_, _)
ProductSums(per_dim, d) ==
    IF d > Len(per_dim) THEN <<0>>
    ELSE LET rest == ProductSums(per_dim, d + 1)
             n == Len(per_dim[d])
         IN  [x \in 1..(n * Len(rest)) |->
                 per_dim[d][((x - 1) \div Len(rest)) + 1] + rest[((x - 1) % Len(rest)) + 1]]

\* np.sort: the elements in ascending order, duplicates kept
np_sort(a) == SortSeq(a, LAMBDA x, y : x < y)

\* line 233 left out: no duplicate is removed
np_unique_keeps_duplicates(a) == a

\* np.unique: the elements are sorted and every element equal to the one
\* before it is dropped
np_unique(a) ==
    LET s == np_sort(a)
        marked == [x \in 1..Len(s) |-> <<x = 1 \/ s[x - 1] # s[x], s[x]>>]
        kept == SelectSeq(marked, LAMBDA m : m[1])
    IN  [x \in 1..Len(kept) |-> kept[x][2]]

get_actions_importance_sigmoid(max_dim, importance_base, n_acts) ==
    LET per_dim == possible_actions_per_dim(max_dim, importance_base, n_acts)
        possible_actions_acc == ProductSums(per_dim, 1)
    IN  np_sort(np_unique(possible_actions_acc))

\* the importance bases num/den in (0, 1]
Bases == {b \in [num : 1..MaxBaseDen, den : 1..MaxBaseDen] : b.num <= b.den}

InitGrid ==
    /\ pc = "call"
    /\ \E max_dim \in 1..MaxDim, importance_base \in Bases, n_acts \in 2..MaxActs :
           args = [max_dim |-> max_dim, importance_base |-> importance_base,
                   n_acts |-> n_acts]
    /\ ret = None
    /\ env = Unused /\ acc = Unused /\ k = Unused
    /\ episodic_reward = Unused /\ hist = Unused

CallGrid ==
    /\ pc = "call"
    /\ ret' = get_actions_importance_sigmoid(args.max_dim, args.importance_base,
                                             args.n_acts)
    /\ pc' = "done"
    /\ UNCHANGED <<args, env, acc, k, episodic_reward, hist>>

NextGrid == CallGrid

SpecGrid == InitGrid /\ [][NextGrid]_vars

\* the unit of the grid of the call in args
ArgsUnit == GridUnit(args.max_dim, args.importance_base, args.n_acts)

\* v/ArgsUnit is candidate j of dimension i: j/(n-1) for dimension 0,
\* b^i * (j/(n-1) - 1/2) for dimension i >= 1 (both sides multiplied out)
IsCandidate(v, i, j) ==
    LET b == args.importance_base
        n == args.n_acts
    IN  IF i = 0 THEN v * (n - 1) = ArgsUnit * j
        ELSE v * Pow(b.den, i) * 2 * (n - 1) = ArgsUnit * Pow(b.num, i) * (2 * j - (n - 1))

Candidate(i, j) == CHOOSE v \in (-ArgsUnit)..ArgsUnit : IsCandidate(v, i, j)

\* the sequence s with every element multiplied by m
Times(m, s) == [x \in DOMAIN s |-> m * s[x]]

\* the sums of one value of each of the sets S[i], S[i+1], ...
RECURSIVE SumsOfOneEach(_, _)
SumsOfOneEach(S, i) ==
    IF i \notin DOMAIN S THEN {0}
    ELSE {v + w : v \in S[i], w \in SumsOfOneEach(S, i + 1)}

\* the sums of one candidate per dimension
DistinctSums ==
    SumsOfOneEach([i \in 0..(args.max_dim - 1) |->
                      {Candidate(i, j) : j \in 0..(args.n_acts - 1)}], 0)

\* C6: the returned grid is strictly increasing (no duplicates), its elements
\* are exactly the distinct sums of one candidate per dimension, it has at most
\* n_acts^max_dim elements; for max_dim=2, b=0.5, n_acts=3 the per-dimension
\* grids are [0, 0.5, 1] and [-0.25, 0, 0.25] and the result has at most 9
\* elements.
C6_GridSortedDistinctSums ==
    pc = "done" =>
        /\ StrictlyIncreasing(ret)
        /\ Range(ret) = DistinctSums
        /\ Len(ret) <= Pow(args.n_acts, args.max_dim)
        /\ (args = [max_dim |-> 2, importance_base |-> [num |-> 1, den |-> 2],
                    n_acts |-> 3]) =>
               /\ Times(4, possible_actions_per_dim(2, args.importance_base, 3)[1])
                      = <<0, 2 * ArgsUnit, 4 * ArgsUnit>>
               /\ Times(4, possible_actions_per_dim(2, args.importance_base, 3)[2])
                      = <<-ArgsUnit, 0, ArgsUnit>>
               /\ Len(ret) <= 9

\* the documented example, where two pairs of sums coincide (0.5 - 0.25 =
\* 0 + 0.25 and 1 - 0.25 = 0.5 + 0.25) and seven values remain
C6_Witness ==
    /\ pc = "done"
    /\ args = [max_dim |-> 2, importance_base |-> [num |-> 1, den |-> 2], n_acts |-> 3]
    /\ Len(ret) = 7
    /\ Len(ProductSums(possible_actions_per_dim(2, args.importance_base, 3), 1)) = 9

----
\* eval_policy_on_sigmoid (plotting_helpers.py:107-131)
\* The environment is dacbench's: reset() moves round-robin to the next entry
\* of instance_id_list, step() answers a reward and the two end signals and
\* truncates the episode at n_steps.
\* hist records what the environment saw: the resets, the rewards it handed
\* out per instance, the end signals of the running episode, and the writes
\* to each entry of the result vector.

\* most instances of an environment
MaxInst == 3

\* the rewards a step of the environment answers
StepRewards == {0, 1}

\* the orders in which an instance list can hold the identifiers 0..n-1
InstanceOrders(n) ==
    {p \in [1..n -> 0..(n - 1)] : \A x, y \in 1..n : p[x] = p[y] => x = y}

\* env.reset(): the next instance of the list, round-robin; a new episode
env_reset(e) ==
    LET next == (e.instance_index + 1) % Len(e.instance_id_list)
    IN  [e EXCEPT !.instance_index = next,
                  !.inst_id = e.instance_id_list[next + 1],
                  !.c_step = 0]

InitEval ==
    /\ pc = "for"
    /\ \E n \in 1..MaxInst, start \in 0..(MaxInst - 1), n_steps \in 1..MaxSteps :
       \* the list holds the identifiers 0..n-1 in ascending order
       LET instance_id_list == [x \in 1..n |-> x - 1] IN
           /\ start < n
           /\ env = [instance_id_list |-> instance_id_list,
                     instance_index |-> start, inst_id |-> instance_id_list[start + 1],
                     c_step |-> 0, n_steps |-> n_steps]
           \* line 112
           /\ acc = [id \in 0..(n - 1) |-> NaN]
           /\ hist = [resets |-> 0, writes |-> [id \in 0..(n - 1) |-> 0],
                      given |-> [id \in 0..(n - 1) |-> <<>>], signals |-> <<>>]
    /\ k = 0
    /\ episodic_reward = 0
    /\ args = Unused
    /\ ret = None

\* lines 114-117: one more pass of the for loop
EvalReset ==
    /\ pc = "for"
    /\ k < Len(env.instance_id_list)
    /\ env' = env_reset(env)
    /\ episodic_reward' = 0
    /\ hist' = [hist EXCEPT !.resets = @ + 1, !.signals = <<>>]
    /\ pc' = "while"
    /\ UNCHANGED <<args, ret, acc, k>>

\* lines 119-127: one pass of the while loop.  The action is the policy's
\* (lines 120-124); the environment answers any reward, may terminate, and
\* truncates at n_steps.
EvalStep ==
    /\ pc = "while"
    /\ \E reward \in StepRewards, terminated \in BOOLEAN :
           LET truncated == env.c_step + 1 >= env.n_steps
               done == terminated \/ truncated
           IN  /\ env' = [env EXCEPT !.c_step = @ + 1]
               /\ episodic_reward' = episodic_reward + reward
               /\ hist' = [hist EXCEPT !.given[env.inst_id] = Append(@, reward),
                                       !.signals = Append(@, done)]
               /\ pc' = IF done THEN "store" ELSE "while"
    /\ UNCHANGED <<args, ret, acc, k>>

\* line 129 with the loop counter as the index
EvalStoreByLoopIndex ==
    /\ pc = "store"
    /\ acc' = [acc EXCEPT ![k] = Num(episodic_reward)]
    /\ hist' = [hist EXCEPT !.writes[k] = @ + 1]
    /\ k' = k + 1
    /\ pc' = "for"
    /\ UNCHANGED <<args, ret, env, episodic_reward>>

\* line 129, and the end of the pass of the for loop
EvalStore ==
    /\ pc = "store"
    /\ acc' = [acc EXCEPT ![env.inst_id] = Num(episodic_reward)]
    /\ hist' = [hist EXCEPT !.writes[env.inst_id] = @ + 1]
    /\ k' = k + 1
    /\ pc' = "for"
    /\ UNCHANGED <<args, ret, env, episodic_reward>>

\* line 131
EvalReturn ==
    /\ pc = "for"
    /\ k >= Len(env.instance_id_list)
    /\ ret' = acc
    /\ pc' = "done"
    /\ UNCHANGED <<args, env, acc, k, episodic_reward, hist>>

NextEval == EvalReset \/ EvalStep \/ EvalStore \/ EvalReturn

SpecEval == InitEval /\ [][NextEval]_vars

\* C4: with n instances 0..n-1 visited round-robin from any starting
\* position, the loop resets exactly n times, steps each episode until the
\* first step that signals terminated or truncated, writes no entry twice, and
\* returns for every instance the sum of the rewards of its steps, none NaN.
C4_EveryInstanceOnce ==
    /\ \A id \in DOMAIN acc : hist.writes[id] <= 1
    /\ pc = "while" => \A x \in DOMAIN hist.signals : ~hist.signals[x]
    /\ pc = "store" =>
           /\ hist.signals # <<>>
           /\ \A x \in DOMAIN hist.signals : hist.signals[x] <=> x = Len(hist.signals)
    /\ pc = "done" =>
           /\ hist.resets = Len(env.instance_id_list)
           /\ DOMAIN ret = 0..(Len(env.instance_id_list) - 1)
           /\ \A id \in DOMAIN ret :
                  /\ ~ret[id].nan
                  /\ ret[id] = Num(SumSeq(hist.given[id]))
                  /\ hist.writes[id] = 1

\* three instances, the first reset reaching instance 1 and the last one
\* instance 0, with episodes of different lengths and totals
C4_Witness ==
    /\ pc = "done"
    /\ Len(env.instance_id_list) = 3
    /\ env.inst_id = 0
    /\ Len(hist.given[0]) = 2 /\ Len(hist.given[2]) = 1
    /\ ret[0] = Num(2) /\ ret[1] = Num(0) /\ ret[2] = Num(1)

----
\* get_best_possible_avg_reward (plotting_helpers.py:165-216)
\* env is the environment the benchmark object hands out (lines 184, 199,
\* 207): its kind follows from the benchmark, its instances are the
\* benchmark's.  acc holds the locals possible_actions_acc and
\* optim_reward_per_episode_acc, hist the instance each pass computed.

\* largest truth value of an instance, in the unit of the call
MaxTruth == 2

\* the benchmark names: the two importance-weighted ones and one other
Benchmarks == {"candid_sigmoid", "piecewise_linear", "sigmoid"}

EnvKindOf(benchmark) ==
    IF benchmark = "candid_sigmoid" THEN SingleTarget
    ELSE IF benchmark = "piecewise_linear" THEN Piecewise
    ELSE MultiAction

\* the truth table of an instance: the instances of the model have one truth
\* value each, the same at every step and for every action
InstanceTruth(e, id) ==
    [t \in 1..e.n_steps |-> [i \in 1..e.n_actions |-> e.instance_set[id]]]

\* env.reset() of an environment with an instance set: the next instance of
\* the list, and its truths
env_reset_instance(e) ==
    LET r == env_reset(e)
    IN  [r EXCEPT !.truth = InstanceTruth(e, r.inst_id)]

\* lines 174-177: the action grid of the call
possible_actions_of(a) ==
    IF a.benchmark \in {"candid_sigmoid", "piecewise_linear"}
    THEN get_actions_importance_sigmoid(a.max_dim, a.importance_base, a.n_acts)
    ELSE LET unit == GridUnit(a.max_dim, a.importance_base, a.n_acts)
         IN  [x \in 1..a.n_acts |-> (unit \div (a.n_acts - 1)) * (x - 1)]

InitBest ==
    /\ pc = "setup"
    \* dim = max_dim = 2, and the defaults of importance_base and n_acts
    /\ \E benchmark \in Benchmarks, reward_shape \in RewardShapes :
           args = [dim |-> 2, benchmark |-> benchmark, reward_shape |-> reward_shape,
                   c |-> 1, importance_base |-> [num |-> 1, den |-> 2],
                   n_acts |-> 3, max_dim |-> 2]
    /\ \E n \in 1..MaxInst :
       \E instance_id_list \in InstanceOrders(n),
          instance_set \in [0..(n - 1) -> 0..MaxTruth] :
           LET e == [kind |-> EnvKindOf(args.benchmark),
                     n_steps |-> MaxSteps, n_actions |-> args.dim,
                     unit |-> GridUnit(args.max_dim, args.importance_base, args.n_acts),
                     instance_set |-> instance_set,
                     instance_id_list |-> instance_id_list,
                     instance_index |-> 0, inst_id |-> instance_id_list[1],
                     truth |-> <<>>, c_step |-> 0]
           IN  env = [e EXCEPT !.truth = InstanceTruth(e, e.inst_id)]
    /\ acc = Unused
    /\ hist = Unused
    /\ k = 0
    /\ episodic_reward = Unused
    /\ ret = None

\* lines 174-191, 196-201, 206-211: the grid, the environment, the vector of
\* nan and the reset before the loop
BestSetup ==
    /\ pc = "setup"
    /\ acc' = [possible_actions_acc |-> possible_actions_of(args),
               optim_reward_per_episode_acc |->
                   [x \in 0..(Len(env.instance_id_list) - 1) |-> NaN]]
    /\ env' = env_reset_instance(env)
    /\ hist' = [resets |-> 1, computed |-> <<>>]
    /\ k' = 0
    /\ pc' = "for"
    /\ UNCHANGED <<args, ret, episodic_reward>>

\* a pass of the loop without the reset of line 194 (204, 214)
BestLoopNoReset ==
    /\ pc = "for"
    /\ k < Len(env.instance_id_list)
    /\ acc' = [acc EXCEPT !.optim_reward_per_episode_acc[k] =
                   Num(compute_optimal_episode_reward(env, acc.possible_actions_acc,
                                                      args.reward_shape, args.c))]
    /\ hist' = [hist EXCEPT !.computed = Append(@, env.inst_id)]
    /\ k' = k + 1
    /\ UNCHANGED <<pc, args, ret, env, episodic_reward>>

\* lines 192-194, 202-204, 212-214: one pass of the loop
BestLoop ==
    /\ pc = "for"
    /\ k < Len(env.instance_id_list)
    /\ acc' = [acc EXCEPT !.optim_reward_per_episode_acc[k] =
                   Num(compute_optimal_episode_reward(env, acc.possible_actions_acc,
                                                      args.reward_shape, args.c))]
    /\ env' = env_reset_instance(env)
    /\ hist' = [hist EXCEPT !.resets = @ + 1, !.computed = Append(@, env.inst_id)]
    /\ k' = k + 1
    /\ UNCHANGED <<pc, args, ret, episodic_reward>>

\* the sum of entries x..n-1 of a vector of rewards; nan if one of them is nan
RECURSIVE VectorSum(_, _, _)
VectorSum(v, x, den) ==
    IF x \notin DOMAIN v THEN Num(ZeroReward(den))
    ELSE LET rest == VectorSum(v, x + 1, den)
         IN  IF v[x].nan \/ rest.nan THEN NaN
             ELSE Num(AddReward(v[x].value, rest.value))

\* the denominator of the episode rewards of an environment
RewardDen(e) == IF e.kind = MultiAction THEN Pow(e.unit, e.n_actions) ELSE e.unit

\* np.mean: the sum of the entries over their number
np_mean(v, den) == [total |-> VectorSum(v, 0, den), count |-> Cardinality(DOMAIN v)]

\* line 216
BestReturn ==
    /\ pc = "for"
    /\ k >= Len(env.instance_id_list)
    /\ ret' = np_mean(acc.optim_reward_per_episode_acc, RewardDen(env))
    /\ pc' = "done"
    /\ UNCHANGED <<args, env, acc, k, episodic_reward, hist>>

NextBest == BestSetup \/ BestLoop \/ BestReturn

SpecBest == InitBest /\ [][NextBest]_vars

\* the optimal episode reward of instance id
OptimalOf(id) ==
    compute_optimal_episode_reward([env EXCEPT !.truth = InstanceTruth(env, id)],
                                   acc.possible_actions_acc, args.reward_shape, args.c)

\* the sum of the optimal episode rewards of the instances id..n-1, in the
\* order of the identifiers
RECURSIVE OptimalSumFrom(_)
OptimalSumFrom(id) ==
    IF id >= Len(env.instance_id_list) THEN ZeroReward(RewardDen(env))
    ELSE AddReward(OptimalOf(id), OptimalSumFrom(id + 1))

\* C5: in each of the three branches there is one reset before the loop and
\* one after each of the n computations, every instance is computed exactly
\* once, and the result is the mean of the optimal episode rewards over the
\* instances, whatever the order in which reset() enumerates them.
C5_MeanOverEveryInstance ==
    pc = "done" =>
        /\ hist.resets = Len(env.instance_id_list) + 1
        /\ Len(hist.computed) = Len(env.instance_id_list)
        /\ \A id \in 0..(Len(env.instance_id_list) - 1) :
               Cardinality({x \in DOMAIN hist.computed : hist.computed[x] = id}) = 1
        /\ ret = [total |-> Num(OptimalSumFrom(0)), count |-> Len(env.instance_id_list)]

\* three instances with different optimal rewards, enumerated in an order
\* that is not the order of their identifiers
C5_Witness ==
    /\ pc = "done"
    /\ Len(env.instance_id_list) = 3
    /\ hist.computed = <<2, 0, 1>>
    /\ OptimalOf(0) # OptimalOf(1)
    /\ OptimalOf(1) # OptimalOf(2)
    /\ OptimalOf(0) # OptimalOf(2)

----
\* get_run_configs (plotting_helpers.py:239-268)
\* A DataFrame is a function from its index labels to its rows; boolean
\* indexing gives a new frame with the rows whose mask is true, under their
\* labels.  importance_base is in quarters and exp_reward in tenths (46 is the
\* default 4.6).

best == <<"b", "e", "s", "t">>

\* the config_id values of rows and selectors: the wildcard, a name holding
\* it, and a plain identifier
ConfigIds == <<best, best \o <<"_">> \o fdqn, <<"7">>>>

DimValues == <<2, 5>>

BenchmarkValues == <<"sigmoid", "candid_sigmoid", "piecewise_linear">>

BoolValues == <<FALSE, TRUE>>

NActValues == <<3, 5>>

ImportanceBaseValues == <<2, 3>>

RewardShapeValues == <<"exp", "linear">>

ExpRewardValues == <<46, 10>>

\* the number of different rows
NRows == 3 * 2 * 3 * 2 * 2 * 2 * 2 * 2

\* digit of x in the mixed-radix numbering of the rows
Digit(x, below, radix) == ((x \div below) % radix) + 1

\* row number x of the table that holds every combination of values once
RowOf(x) ==
    [config_id |-> ConfigIds[Digit(x, 1, 3)],
     dim |-> DimValues[Digit(x, 3, 2)],
     benchmark |-> BenchmarkValues[Digit(x, 6, 3)],
     reverse_agents |-> BoolValues[Digit(x, 18, 2)],
     n_act |-> NActValues[Digit(x, 36, 2)],
     importance_base |-> ImportanceBaseValues[Digit(x, 72, 2)],
     reward_shape |-> RewardShapeValues[Digit(x, 144, 2)],
     exp_reward |-> ExpRewardValues[Digit(x, 288, 2)]]

\* df[mask]: the rows of df whose entry of the boolean series mask is true,
\* under their index labels
Masked(df, mask) == [x \in {y \in DOMAIN df : mask[y]} |-> df[x]]

\* lines 246-249
ByConfigId(df, config_id) ==
    Masked(df, [x \in DOMAIN df |->
                   IF config_id = best THEN Contains(df[x].config_id, best)
                   ELSE df[x].config_id = config_id])

\* lines 251-256
ByBasics(df, dim, benchmark, reverse_agents, n_act) ==
    Masked(df, [x \in DOMAIN df |->
                   /\ df[x].dim = dim
                   /\ df[x].benchmark = benchmark
                   /\ df[x].reverse_agents = reverse_agents
                   /\ df[x].n_act = n_act])

\* lines 259-262
ByImportance(df, importance_base, reward_shape) ==
    Masked(df, [x \in DOMAIN df |->
                   /\ df[x].importance_base = importance_base
                   /\ df[x].reward_shape = reward_shape])

\* lines 264-266
ByExpReward(df, exp_reward) ==
    Masked(df, [x \in DOMAIN df |-> df[x].exp_reward = exp_reward])

\* the exp_reward selector applied whatever the reward shape
get_run_configs_always_exp_reward(df_config, dim, benchmark, config_id, reverse_agents, importance_base, reward_shape, exp_reward, n_act) ==
    LET df1 == ByConfigId(df_config, config_id)
        df2 == ByBasics(df1, dim, benchmark, reverse_agents, n_act)
    IN  IF benchmark \in {"candid_sigmoid", "piecewise_linear"}
        THEN ByExpReward(ByImportance(df2, importance_base, reward_shape), exp_reward)
        ELSE df2

get_run_configs(df_config, dim, benchmark, config_id, reverse_agents, importance_base, reward_shape, exp_reward, n_act) ==
    LET df1 == ByConfigId(df_config, config_id)
        df2 == ByBasics(df1, dim, benchmark, reverse_agents, n_act)
    IN  IF benchmark \in {"candid_sigmoid", "piecewise_linear"}
        THEN LET df3 == ByImportance(df2, importance_base, reward_shape)
             IN  IF reward_shape = "exp" THEN ByExpReward(df3, exp_reward) ELSE df3
        ELSE df2

\* the table of every row, and the tables of the rows of some config_ids only
FullTable == [x \in 1..NRows |-> RowOf(x - 1)]

Tables ==
    {[x \in {y \in 1..NRows : FullTable[y].config_id \in ids} |-> FullTable[x]] :
         ids \in (SUBSET Range(ConfigIds)) \ {{}}}

\* hist keeps the table as it was handed in
InitConfigs ==
    /\ pc = "call"
    /\ \E df_config \in Tables,
          config_id \in Range(ConfigIds), dim \in Range(DimValues),
          benchmark \in Range(BenchmarkValues), reverse_agents \in BOOLEAN,
          n_act \in Range(NActValues), importance_base \in Range(ImportanceBaseValues),
          reward_shape \in Range(RewardShapeValues), exp_reward \in Range(ExpRewardValues) :
           /\ args = [df_config |-> df_config, dim |-> dim, benchmark |-> benchmark,
                      config_id |-> config_id, reverse_agents |-> reverse_agents,
                      importance_base |-> importance_base, reward_shape |-> reward_shape,
                      exp_reward |-> exp_reward, n_act |-> n_act]
           /\ hist = df_config
    /\ ret = None
    /\ env = Unused /\ acc = Unused /\ k = Unused /\ episodic_reward = Unused

\* the function rebinds its local df_config; the caller's frame stays as it is
CallConfigs ==
    /\ pc = "call"
    /\ ret' = get_run_configs(args.df_config, args.dim, args.benchmark, args.config_id,
                              args.reverse_agents, args.importance_base,
                              args.reward_shape, args.exp_reward, args.n_act)
    /\ pc' = "done"
    /\ UNCHANGED <<args, env, acc, k, episodic_reward, hist>>

NextConfigs == CallConfigs

SpecConfigs == InitConfigs /\ [][NextConfigs]_vars

\* row r satisfies every selector that applies to the call in args
Selected(r) ==
    /\ IF args.config_id = best THEN Contains(r.config_id, best)
       ELSE r.config_id = args.config_id
    /\ r.dim = args.dim
    /\ r.benchmark = args.benchmark
    /\ r.reverse_agents = args.reverse_agents
    /\ r.n_act = args.n_act
    /\ args.benchmark \in {"candid_sigmoid", "piecewise_linear"} =>
           /\ r.importance_base = args.importance_base
           /\ r.reward_shape = args.reward_shape
           /\ args.reward_shape = "exp" => r.exp_reward = args.exp_reward

\* C10: the result holds exactly the rows of the input table that satisfy
\* every applicable selector (config_id, dim, benchmark, reverse_agents, n_act
\* always; importance_base and reward_shape for the two importance-weighted
\* benchmarks; exp_reward only when, in addition, reward_shape is 'exp'), the
\* input table is as it was, and a call that selects no row returns an empty
\* table.
C10_ExactlyTheSelectedRows ==
    pc = "done" =>
        /\ DOMAIN ret = {x \in DOMAIN hist : Selected(hist[x])}
        /\ \A x \in DOMAIN ret : ret[x] = hist[x]
        /\ args.df_config = hist
        /\ args.config_id = best => \A x \in DOMAIN ret : Contains(ret[x].config_id, best)

\* an importance-weighted call of a non-exponential shape: rows of both
\* exp_reward values are returned
C10_Witness ==
    /\ pc = "done"
    /\ args.benchmark = "candid_sigmoid"
    /\ args.reward_shape = "linear"
    /\ args.config_id = best
    /\ \E x, y \in DOMAIN ret :
           /\ ret[x].exp_reward # ret[y].exp_reward
           /\ ret[x].config_id # ret[y].config_id

\* a call that selects no row of its table
C10_EmptyWitness ==
    /\ pc = "done"
    /\ args.config_id = best
    /\ DOMAIN hist # {}
    /\ DOMAIN ret = {}

====
